---- MODULE Spec2Model ----
(***************************************************************************)
(* Model of the image signature pipeline in src/src/lib.rs:                *)
(*   grayscale_buffer -> crop_boundaries -> grid_points -> grid_averages   *)
(*   -> compute_signature, and the comparator cosine_similarity.           *)
(*                                                                         *)
(* A call is a run of the stages in order; pc names the stage that runs    *)
(* next.  A Rust panic (index out of bounds, failed assert_eq!, arithmetic *)
(* overflow in a build with overflow checks) ends the call: pc becomes     *)
(* "panicked" and fault records where and why.  A call caught in a loop    *)
(* that cannot end stands at "looping".                                    *)
(***************************************************************************)
EXTENDS Integers, Sequences, FiniteSets, TLC

VARIABLES
    rgba_buffer,      \* &[u8]: the RGBA bytes handed to the call
    width,            \* usize: pixels per row
    crop,             \* f32 crop fraction, held in percent (5 is 0.05)
    grid_size,        \* usize
    overflow_checks,  \* build profile: TRUE panics on integer overflow, FALSE wraps
    pc,               \* the stage that runs next
    gray,             \* Vec<Vec<u8>>: the grayscale grid
    bounds,           \* Bounds
    points,           \* HashMap<(i8, i8), (usize, usize)>
    averages,         \* HashMap<(i8, i8), u8>
    signature,        \* Vec<i8>
    fault,            \* the panic that ended the call, if any
    vec_a,            \* cosine_similarity: a
    vec_b,            \* cosine_similarity: b
    similarity        \* cosine_similarity: the f64 returned

vars == <<rgba_buffer, width, crop, grid_size, overflow_checks, pc, gray,
          bounds, points, averages, signature, fault, vec_a, vec_b, similarity>>

----------------------------------------------------------------------------
(* Program constants *)

DEFAULT_CROP_PERCENT == 5

DEFAULT_GRID_SIZE == 10

\* compute_diff: differences of at most this magnitude are "same"
SAME_LIMIT == 2

----------------------------------------------------------------------------
(* Bounds of the model *)

\* usize is 64 bits wide; the model wraps at 2^UsizeBits so that a wrapped
\* value stays inside the model checker's integers.  Every index and span of
\* the images below is far smaller than 2^UsizeBits.
UsizeBits == 16

\* SpecGray: longest RGBA buffer and widest row
MaxBufLen == 9

MaxWidth == 2

\* SpecPipe: largest side of the small square images
MaxSmallDim == 6

\* SpecPipe: largest tuned grid_size
MaxTunedGrid == 3

\* SpecDefault: side of the square images handed to get_buffer_signature
ImageDim == 64

\* SpecSig: Average Map entries range over 0..MaxGray
MaxGray == 6

\* SpecSigLen: grid sizes range over 2..MaxLenGrid
MaxLenGrid == 10

\* SpecCos: longest vector
MaxVecLen == 3

----------------------------------------------------------------------------
(* Arithmetic helpers *)

Abs(n) == IF n < 0 THEN -n ELSE n

Signum(n) == IF n > 0 THEN 1 ELSE IF n < 0 THEN -1 ELSE 0

\* Rust integer division truncates toward zero (TLA+ \div rounds down)
TruncDiv(n, d) == IF n >= 0 THEN n \div d ELSE -((-n) \div d)

Min(m, n) == IF m < n THEN m ELSE n

UsizeModulus == 2 ^ UsizeBits

\* Bounds before crop_boundaries has set it
NoBounds == [lower_x |-> 0, upper_x |-> 0, lower_y |-> 0, upper_y |-> 0]

NoFault == [stage |-> "", kind |-> "none"]

Panic(stage, kind) == [stage |-> stage, kind |-> kind]

\* s[lo] + ... + s[hi], by halves
RECURSIVE SumBetween(_, _, _)
SumBetween(s, lo, hi) ==
    IF lo > hi THEN 0
    ELSE IF lo = hi THEN s[lo]
    ELSE SumBetween(s, lo, (lo + hi) \div 2) + SumBetween(s, ((lo + hi) \div 2) + 1, hi)

SumSeq(s) == SumBetween(s, 1, Len(s))

\* a - b on usize: the difference, or what the build makes of an underflow
\* (a panic with overflow checks, the wrapped value without)
UsizeSub(m, n, checks) ==
    IF m >= n THEN [val |-> m - n, overflow |-> FALSE]
    ELSE IF checks THEN [val |-> 0, overflow |-> TRUE]
    ELSE [val |-> m - n + UsizeModulus, overflow |-> FALSE]

----------------------------------------------------------------------------
(* Step 1: grayscale_buffer *)

\* pixel_gray: (r + g + b) / 3 in u16, scaled by a / 255.0 and truncated.
\* The scaling is exact for a = 0 and a = 255, the alpha values drawn below.
pixel_gray(r, g, b, alpha) == (((r + g + b) \div 3) * alpha) \div 255

\* The row the `for _ in 0..width` loop builds from position i (0-based)
GrayRow(buf, w, i) ==
    [k \in 1..w |->
        pixel_gray(buf[i + 4 * (k - 1) + 1], buf[i + 4 * (k - 1) + 2],
                   buf[i + 4 * (k - 1) + 3], buf[i + 4 * (k - 1) + 4])]

\* Does the row loop from position i index rgba_buffer past its end?
RowReadsPastEnd(buf, w, i) == w > 0 /\ i + 4 * w > Len(buf)

\* The loop `while idx < rgba_buffer.len()`, whose every pass reads 4 * width
\* bytes from idx, pushes a row and advances idx by 4 * width:
\*   - an empty buffer ends it at once;
\*   - with width = 0 a pass leaves idx at 0, so the loop pushes empty rows
\*     without end and the call never returns;
\*   - otherwise it makes len / (4 * width) whole passes, and if bytes are
\*     left over a further pass indexes rgba_buffer past its end and panics.
grayscale_buffer(buf, w) ==
    IF Len(buf) = 0 THEN [rows |-> <<>>, kind |-> "none"]
    ELSE IF w = 0 THEN [rows |-> <<>>, kind |-> "never_returns"]
    ELSE LET passes == Len(buf) \div (4 * w)
             rows == [y \in 1..passes |-> GrayRow(buf, w, 4 * w * (y - 1))]
         IN IF RowReadsPastEnd(buf, w, 4 * w * passes) /\ 4 * w * passes < Len(buf)
            THEN [rows |-> rows, kind |-> "index_out_of_bounds"]
            ELSE [rows |-> rows, kind |-> "none"]

GrayscaleBuffer ==
    /\ pc = "grayscale_buffer"
    /\ LET r == grayscale_buffer(rgba_buffer, width)
       IN IF r.kind = "none"
          THEN /\ gray' = r.rows
               /\ pc' = "crop_boundaries"
               /\ UNCHANGED fault
          ELSE IF r.kind = "never_returns"
          THEN /\ pc' = "looping"
               /\ UNCHANGED <<gray, fault>>
          ELSE /\ pc' = "panicked"
               /\ fault' = Panic("grayscale_buffer", r.kind)
               /\ UNCHANGED gray
    /\ UNCHANGED <<rgba_buffer, width, crop, grid_size, overflow_checks, bounds,
                   points, averages, signature, vec_a, vec_b, similarity>>

----------------------------------------------------------------------------
(* Step 2, part 1: crop_boundaries and get_bounds *)

\* row_diff_sums: per row, the sum of |pixels[y][x] - pixels[y][x-1]|
RowDiffSums(pixels) ==
    [y \in 1..Len(pixels) |->
        SumSeq([x \in 1..(Len(pixels[y]) - 1) |-> Abs(pixels[y][x + 1] - pixels[y][x])])]

\* col_diff_sums: per column of pixels[0], the sum of |pixels[y][x] - pixels[y-1][x]|
ColDiffSums(pixels) ==
    [x \in 1..Len(pixels[1]) |->
        SumSeq([y \in 1..(Len(pixels) - 1) |-> Abs(pixels[y + 1][x] - pixels[y][x])])]

\* (total_diff_sum as f32 * crop) as i32.  For crop 0, 0.05 and 0.5 and the
\* totals of the images below the f32 product truncates to this integer.
Threshold(diff_sums, crop_percent) == TruncDiv(SumSeq(diff_sums) * crop_percent, 100)

\* `while sum < threshold { sum += diff_sums[lower]; lower += 1; }`
\* lower is the 0-based index, as in the code.
RECURSIVE LowerWalk(_, _, _, _)
LowerWalk(diff_sums, threshold, lower, sum) ==
    IF sum >= threshold THEN [val |-> lower, kind |-> "none"]
    ELSE IF lower >= Len(diff_sums) THEN [val |-> lower, kind |-> "index_out_of_bounds"]
    ELSE LowerWalk(diff_sums, threshold, lower + 1, sum + diff_sums[lower + 1])

\* `while sum < threshold { sum += diff_sums[upper]; upper -= 1; }`
RECURSIVE UpperWalk(_, _, _, _, _)
UpperWalk(diff_sums, threshold, upper, sum, checks) ==
    IF sum >= threshold THEN [val |-> upper, kind |-> "none"]
    ELSE IF upper >= Len(diff_sums) THEN [val |-> upper, kind |-> "index_out_of_bounds"]
    ELSE LET dec == UsizeSub(upper, 1, checks)
         IN IF dec.overflow THEN [val |-> upper, kind |-> "arithmetic_overflow"]
            ELSE UpperWalk(diff_sums, threshold, dec.val, sum + diff_sums[upper + 1],
                           checks)

get_bounds(diff_sums, crop_percent, checks) ==
    LET threshold == Threshold(diff_sums, crop_percent)
        start == UsizeSub(Len(diff_sums), 1, checks)
        lower == LowerWalk(diff_sums, threshold, 0, 0)
        upper == UpperWalk(diff_sums, threshold, start.val, 0, checks)
    IN IF start.overflow THEN [lower |-> 0, upper |-> 0, kind |-> "arithmetic_overflow"]
       ELSE IF lower.kind # "none" THEN [lower |-> lower.val, upper |-> 0, kind |-> lower.kind]
       ELSE [lower |-> lower.val, upper |-> upper.val, kind |-> upper.kind]

crop_boundaries(pixels, crop_percent, checks) ==
    LET rows == get_bounds(RowDiffSums(pixels), crop_percent, checks)
        cols == get_bounds(ColDiffSums(pixels), crop_percent, checks)
    IN IF rows.kind # "none" THEN [bounds |-> NoBounds, kind |-> rows.kind]
       ELSE IF Len(pixels) = 0 THEN [bounds |-> NoBounds, kind |-> "index_out_of_bounds"]
       ELSE [bounds |-> [lower_x |-> cols.lower, upper_x |-> cols.upper,
                         lower_y |-> rows.lower, upper_y |-> rows.upper],
             kind |-> cols.kind]

CropBoundaries ==
    /\ pc = "crop_boundaries"
    /\ LET r == crop_boundaries(gray, crop, overflow_checks)
       IN IF r.kind = "none"
          THEN /\ bounds' = r.bounds
               /\ pc' = "grid_points"
               /\ UNCHANGED fault
          ELSE /\ pc' = "panicked"
               /\ fault' = Panic("crop_boundaries", r.kind)
               /\ UNCHANGED bounds
    /\ UNCHANGED <<rgba_buffer, width, crop, grid_size, overflow_checks, gray,
                   points, averages, signature, vec_a, vec_b, similarity>>

----------------------------------------------------------------------------
(* Step 2, part 2: grid_points *)

\* The keys (x, y) of the loops `for x in 1..grid_size { for y in 1..grid_size`
Lattice(g) == (1..(g - 1)) \X (1..(g - 1))

grid_points(bnds, g, checks) ==
    LET xs == UsizeSub(bnds.upper_x, bnds.lower_x, checks)
        ys == UsizeSub(bnds.upper_y, bnds.lower_y, checks)
        x_width == xs.val \div g
        y_width == ys.val \div g
    IN IF xs.overflow \/ ys.overflow
       THEN [points |-> <<>>, kind |-> "arithmetic_overflow"]
       ELSE [points |-> [p \in Lattice(g) |-> <<p[1] * x_width, p[2] * y_width>>],
             kind |-> "none"]

GridPoints ==
    /\ pc = "grid_points"
    /\ LET r == grid_points(bounds, grid_size, overflow_checks)
       IN IF r.kind = "none"
          THEN /\ points' = r.points
               /\ pc' = "grid_averages"
               /\ UNCHANGED fault
          ELSE /\ pc' = "panicked"
               /\ fault' = Panic("grid_points", r.kind)
               /\ UNCHANGED points
    /\ UNCHANGED <<rgba_buffer, width, crop, grid_size, overflow_checks, gray,
                   bounds, averages, signature, vec_a, vec_b, similarity>>

----------------------------------------------------------------------------
(* Step 3: grid_averages and pixel_average *)

\* (max(2.0, (0.5 + min(x_width, y_width) as f32 / 20.0).floor()) / 2.0) as i32
square_edge(x_width, y_width) ==
    LET half_up == (Min(x_width, y_width) + 10) \div 20
    IN (IF 2 > half_up THEN 2 ELSE half_up) \div 2

\* pixel_average reads the 3x3 block around (x, y) and grid_averages calls it
\* for every offset in -square_edge..=square_edge, so along one axis the
\* indices read around coordinate c are c - edge - 1 ..= c + edge + 1.  The
\* `as i32` / `as usize` casts leave an index in the range of the model
\* unchanged and turn a negative one into an index past any Vec.
ReadsOutside(pixels, point, edge) ==
    \/ point[1] - edge - 1 < 0
    \/ point[2] - edge - 1 < 0
    \/ point[2] + edge + 1 >= Len(pixels)
    \/ point[1] + edge + 1 >= Len(pixels[1])

\* 9 * pixel_average(pixels, x, y): the sum of the 3x3 block (x, y 0-based)
BlockSum(pixels, x, y) ==
    SumSeq([k \in 1..9 |-> pixels[y + ((k - 1) \div 3)][x + ((k - 1) % 3)]])

\* `(sum / ((square_edge * 2 + 1) * (square_edge * 2 + 1)) as f32) as u8`,
\* sum being the total of the block averages.  Computed exactly; the f32
\* result truncates to the same byte when every block sum is a multiple of 9,
\* as it is for the images below, whose pixels are multiples of 9.
PointAverage(pixels, point, edge) ==
    LET side == 2 * edge + 1
    IN SumSeq([k \in 1..(side * side) |->
                 BlockSum(pixels, point[1] - edge + ((k - 1) \div side),
                          point[2] - edge + ((k - 1) % side))])
         \div (9 * side * side)

grid_averages(pixels, pts, bnds, checks) ==
    LET xs == UsizeSub(bnds.upper_x, bnds.lower_x, checks)
        ys == UsizeSub(bnds.upper_y, bnds.lower_y, checks)
        edge == square_edge(xs.val, ys.val)
    IN IF xs.overflow \/ ys.overflow
       THEN [averages |-> <<>>, kind |-> "arithmetic_overflow"]
       ELSE IF \E p \in DOMAIN pts : ReadsOutside(pixels, pts[p], edge)
       THEN [averages |-> <<>>, kind |-> "index_out_of_bounds"]
       ELSE [averages |-> [p \in DOMAIN pts |-> PointAverage(pixels, pts[p], edge)],
             kind |-> "none"]

GridAverages ==
    /\ pc = "grid_averages"
    /\ LET r == grid_averages(gray, points, bounds, overflow_checks)
       IN IF r.kind = "none"
          THEN /\ averages' = r.averages
               /\ pc' = "compute_signature"
               /\ UNCHANGED fault
          ELSE /\ pc' = "panicked"
               /\ fault' = Panic("grid_averages", r.kind)
               /\ UNCHANGED averages
    /\ UNCHANGED <<rgba_buffer, width, crop, grid_size, overflow_checks, gray,
                   bounds, points, signature, vec_a, vec_b, similarity>>

----------------------------------------------------------------------------
(* Steps 4 and 5: compute_signature *)

\* The neighbour offsets (delta_x, delta_y), in the order of the array literal
NeighbourDeltas ==
    << <<-1, -1>>, <<0, -1>>, <<1, -1>>,
       <<-1, 0>>, <<1, 0>>,
       <<-1, 1>>, <<0, 1>>, <<1, 1>> >>

\* compute_diff with `<` for `<=`: a difference of exactly 2 is no longer "same"
compute_diff_strict(me, other) ==
    LET raw_result == me - other
    IN IF Abs(raw_result) < SAME_LIMIT THEN 0 ELSE raw_result

compute_diff(me, other) ==
    LET raw_result == me - other
    IN IF Abs(raw_result) <= SAME_LIMIT THEN 0 ELSE raw_result

\* The offsets whose neighbour point_averages.get(..) finds
ExistingDeltas(point_averages, grid_x, grid_y) ==
    SelectSeq(NeighbourDeltas,
              LAMBDA d : <<grid_x + d[1], grid_y + d[2]>> \in DOMAIN point_averages)

\* raw_point_diffs with missing neighbours padded with 0 instead of omitted
RawPointDiffsPadded(point_averages, grid_x, grid_y) ==
    [k \in 1..Len(NeighbourDeltas) |->
        LET other == <<grid_x + NeighbourDeltas[k][1], grid_y + NeighbourDeltas[k][2]>>
        IN IF other \in DOMAIN point_averages
           THEN compute_diff(point_averages[<<grid_x, grid_y>>], point_averages[other])
           ELSE 0]

\* raw_point_diffs: the filter_map over the eight offsets, missing neighbours omitted
RawPointDiffs(point_averages, grid_x, grid_y) ==
    LET found == ExistingDeltas(point_averages, grid_x, grid_y)
    IN [k \in 1..Len(found) |->
          compute_diff(point_averages[<<grid_x, grid_y>>],
                       point_averages[<<grid_x + found[k][1], grid_y + found[k][2]>>])]

\* The k-th lattice point of `for grid_y in 1..g { for grid_x in 1..g`
PointAt(k, g) == <<((k - 1) % (g - 1)) + 1, ((k - 1) \div (g - 1)) + 1>>

RawDiffs(point_averages, g) ==
    [k \in 1..((g - 1) * (g - 1)) |->
        RawPointDiffs(point_averages, PointAt(k, g)[1], PointAt(k, g)[2])]

\* seqs[lo] \o ... \o seqs[hi], by halves
RECURSIVE FlattenBetween(_, _, _)
FlattenBetween(seqs, lo, hi) ==
    IF lo > hi THEN <<>>
    ELSE IF lo = hi THEN seqs[lo]
    ELSE FlattenBetween(seqs, lo, (lo + hi) \div 2)
           \o FlattenBetween(seqs, ((lo + hi) \div 2) + 1, hi)

Flatten(seqs) == FlattenBetween(seqs, 1, Len(seqs))

\* vec.sort(): the ascending arrangement of vec.  Position k holds the value
\* v with fewer than k elements below it and at least k elements up to it.
Sort(vec) ==
    LET values == {vec[i] : i \in 1..Len(vec)}
        up_to == [v \in values |-> Cardinality({i \in 1..Len(vec) : vec[i] <= v})]
        below == [v \in values |-> Cardinality({i \in 1..Len(vec) : vec[i] < v})]
    IN [k \in 1..Len(vec) |-> CHOOSE v \in values : below[v] < k /\ k <= up_to[v]]

\* get_median with the average of the two middle elements rounded down
\* instead of truncated toward zero
get_median_floor(vec) ==
    LET sorted == Sort(vec)
        n == Len(sorted)
    IN IF n % 2 = 0
       THEN IF n = 0 THEN 0
            ELSE (sorted[n \div 2] + sorted[(n \div 2) + 1]) \div 2
       ELSE sorted[(n \div 2) + 1]

get_median(vec) ==
    LET sorted == Sort(vec)
        n == Len(sorted)
    IN IF n % 2 = 0
       THEN IF n = 0 THEN 0
            ELSE TruncDiv(sorted[n \div 2] + sorted[(n \div 2) + 1], 2)
       ELSE sorted[(n \div 2) + 1]

\* (dark_threshold, light_threshold)
get_thresholds(raw_diffs) ==
    LET nonzero == SelectSeq(Flatten(raw_diffs), LAMBDA d : d # 0)
    IN [dark |-> get_median(SelectSeq(nonzero, LAMBDA d : d < 0)),
        light |-> get_median(SelectSeq(nonzero, LAMBDA d : ~(d < 0)))]

\* collapse with `>` for `>=`
collapse_strict(val, threshold) ==
    IF Abs(val) > Abs(threshold) THEN 2 * Signum(val) ELSE Signum(val)

collapse(val, threshold) ==
    IF Abs(val) >= Abs(threshold) THEN 2 * Signum(val) ELSE Signum(val)

Quantize(v, thresholds) ==
    IF v > 0 THEN collapse(v, thresholds.light)
    ELSE IF v < 0 THEN collapse(v, thresholds.dark)
    ELSE 0

\* point_averages.get(&(grid_x, grid_y)).unwrap() panics on a missing lattice point
compute_signature(point_averages, g) ==
    IF ~(Lattice(g) \subseteq DOMAIN point_averages)
    THEN [signature |-> <<>>, kind |-> "unwrap_on_none"]
    ELSE LET raw_diffs == RawDiffs(point_averages, g)
             thresholds == get_thresholds(raw_diffs)
             flat == Flatten(raw_diffs)
         IN [signature |-> [k \in 1..Len(flat) |-> Quantize(flat[k], thresholds)],
             kind |-> "none"]

ComputeSignature ==
    /\ pc = "compute_signature"
    /\ LET r == compute_signature(averages, grid_size)
       IN IF r.kind = "none"
          THEN /\ signature' = r.signature
               /\ pc' = "done"
               /\ UNCHANGED fault
          ELSE /\ pc' = "panicked"
               /\ fault' = Panic("compute_signature", r.kind)
               /\ UNCHANGED signature
    /\ UNCHANGED <<rgba_buffer, width, crop, grid_size, overflow_checks, gray,
                   bounds, points, averages, vec_a, vec_b, similarity>>

----------------------------------------------------------------------------
(* cosine_similarity and vector_length *)

\* av * bv on i8: the product, or what the build makes of an overflow
I8Mul(m, n, checks) ==
    LET p == m * n
    IN IF p >= -128 /\ p <= 127 THEN [val |-> p, overflow |-> FALSE]
       ELSE IF checks THEN [val |-> 0, overflow |-> TRUE]
       ELSE [val |-> ((p + 128) % 256) - 128, overflow |-> FALSE]

\* The square of vector_length(v): the sum of (vi * vi) as f64
NormSquared(v, checks) == SumSeq([k \in 1..Len(v) |-> I8Mul(v[k], v[k], checks).val])

DotProduct(v, w, checks) == SumSeq([k \in 1..Len(v) |-> I8Mul(v[k], w[k], checks).val])

\* dot_product / (vector_length(a) * vector_length(b)) in f64.  A finite
\* quotient is kept as its numerator and the square of its denominator;
\* 0.0 / 0.0 is NaN and a nonzero numerator over 0.0 is infinite.
cosine_similarity(v, w, checks) ==
    IF Len(v) # Len(w) THEN [value |-> [kind |-> "none", dot |-> 0, norm_sq |-> 0],
                             kind |-> "assertion_failed"]
    ELSE IF \E k \in 1..Len(v) : \/ I8Mul(v[k], w[k], checks).overflow
                                 \/ I8Mul(v[k], v[k], checks).overflow
                                 \/ I8Mul(w[k], w[k], checks).overflow
    THEN [value |-> [kind |-> "none", dot |-> 0, norm_sq |-> 0],
          kind |-> "arithmetic_overflow"]
    ELSE LET dot == DotProduct(v, w, checks)
             norm_sq == NormSquared(v, checks) * NormSquared(w, checks)
         IN [value |-> [kind |-> IF norm_sq # 0 THEN "finite"
                                 ELSE IF dot = 0 THEN "NaN" ELSE "infinite",
                        dot |-> dot, norm_sq |-> norm_sq],
             kind |-> "none"]

CosineSimilarity ==
    /\ pc = "cosine_similarity"
    /\ LET r == cosine_similarity(vec_a, vec_b, overflow_checks)
       IN IF r.kind = "none"
          THEN /\ similarity' = r.value
               /\ pc' = "done"
               /\ UNCHANGED fault
          ELSE /\ pc' = "panicked"
               /\ fault' = Panic("cosine_similarity", r.kind)
               /\ UNCHANGED similarity
    /\ UNCHANGED <<rgba_buffer, width, crop, grid_size, overflow_checks, gray,
                   bounds, points, averages, signature, vec_a, vec_b>>

----------------------------------------------------------------------------
(* Initial values of the variables a call has not yet written *)


Unstarted ==
    /\ gray = <<>>
    /\ bounds = NoBounds
    /\ points = <<>>
    /\ averages = <<>>
    /\ signature = <<>>
    /\ fault = NoFault
    /\ vec_a = <<>>
    /\ vec_b = <<>>
    /\ similarity = [kind |-> "none", dot |-> 0, norm_sq |-> 0]

RECURSIVE SeqsUpTo(_, _)
SeqsUpTo(S, n) ==
    IF n = 0 THEN {<<>>}
    ELSE LET shorter == SeqsUpTo(S, n - 1)
         IN shorter \cup {Append(s, x) : s \in {t \in shorter : Len(t) = n - 1}, x \in S}

----------------------------------------------------------------------------
(* SpecGray: grayscale_buffer on every short buffer of bytes 0 and 255 *)

InitGray ==
    /\ rgba_buffer \in SeqsUpTo({0, 255}, MaxBufLen)
    /\ width \in 0..MaxWidth
    /\ crop = DEFAULT_CROP_PERCENT
    /\ grid_size = DEFAULT_GRID_SIZE
    /\ overflow_checks = TRUE
    /\ pc = "grayscale_buffer"
    /\ Unstarted

SpecGray == InitGray /\ [][GrayscaleBuffer]_vars

----------------------------------------------------------------------------
(* Images: a square of side dim, black but for a bright square block *)

\* The bright level; a multiple of 9
Bright == 9 * 28

\* Gray level of pixel (x, y), 0-based, of the image with a block of side
\* `side` whose top left corner is (x0, y0)
ImagePixel(x, y, x0, y0, side) ==
    IF x >= x0 /\ x < x0 + side /\ y >= y0 /\ y < y0 + side THEN Bright ELSE 0

\* The image as opaque RGBA bytes, row-major: r = g = b = gray level, a = 255
ImageBuffer(dim, x0, y0, side) ==
    [i \in 1..(4 * dim * dim) |->
        IF (i - 1) % 4 = 3 THEN 255
        ELSE ImagePixel(((i - 1) \div 4) % dim, ((i - 1) \div 4) \div dim, x0, y0, side)]

----------------------------------------------------------------------------
(* SpecPipe: get_tuned_buffer_signature on small images *)

InitPipe ==
    /\ \E dim \in 2..MaxSmallDim :
          /\ width = dim
          /\ \/ rgba_buffer = ImageBuffer(dim, 0, 0, 0)
             \/ \E side \in {1, 3} :
                   \E x0 \in 0..(dim - side), y0 \in 0..(dim - side) :
                      rgba_buffer = ImageBuffer(dim, x0, y0, side)
    /\ crop \in {0, DEFAULT_CROP_PERCENT, 50}
    /\ grid_size \in 2..MaxTunedGrid
    /\ overflow_checks \in BOOLEAN
    /\ pc = "grayscale_buffer"
    /\ Unstarted

NextPipe ==
    \/ GrayscaleBuffer
    \/ CropBoundaries
    \/ GridPoints
    \/ GridAverages
    \/ ComputeSignature

SpecPipe == InitPipe /\ [][NextPipe]_vars

----------------------------------------------------------------------------
(* SpecDefault: get_buffer_signature on images of ImageDim x ImageDim pixels *)

InitDefault ==
    /\ width = ImageDim
    /\ \/ rgba_buffer = ImageBuffer(ImageDim, 0, 0, 0)
       \/ \E side \in {1, ImageDim \div 8, ImageDim \div 2},
             x0 \in {0, ImageDim \div 4, (ImageDim \div 2) - 1},
             y0 \in {0, ImageDim \div 4, (ImageDim \div 2) - 1} :
             rgba_buffer = ImageBuffer(ImageDim, x0, y0, side)
    /\ crop = DEFAULT_CROP_PERCENT
    /\ grid_size = DEFAULT_GRID_SIZE
    /\ overflow_checks \in BOOLEAN
    /\ pc = "grayscale_buffer"
    /\ Unstarted

SpecDefault == InitDefault /\ [][NextPipe]_vars

----------------------------------------------------------------------------
(* SpecSig: compute_signature on Average Maps *)

\* Every Average Map over 0..MaxGray for the grid sizes 2 and 3, and for
\* every grid size up to MaxLenGrid the maps striped by column
AverageMaps(g) ==
    {[p \in Lattice(g) |-> IF p[1] % 2 = 1 THEN odd ELSE even] :
        odd \in 0..MaxGray, even \in 0..MaxGray}
    \cup (IF g <= 3 THEN [Lattice(g) -> 0..MaxGray] ELSE {})

InitSig ==
    /\ grid_size \in 2..MaxLenGrid
    /\ averages \in AverageMaps(grid_size)
    /\ pc = "compute_signature"
    /\ rgba_buffer = <<>>
    /\ width = 0
    /\ crop = DEFAULT_CROP_PERCENT
    /\ overflow_checks = TRUE
    /\ gray = <<>>
    /\ bounds = NoBounds
    /\ points = <<>>
    /\ signature = <<>>
    /\ fault = NoFault
    /\ vec_a = <<>>
    /\ vec_b = <<>>
    /\ similarity = [kind |-> "none", dot |-> 0, norm_sq |-> 0]

SpecSig == InitSig /\ [][ComputeSignature]_vars

----------------------------------------------------------------------------
(* SpecCos: cosine_similarity on short vectors of signature elements *)

InitCos ==
    /\ vec_a \in SeqsUpTo(-2..2, MaxVecLen)
    /\ vec_b \in SeqsUpTo(-2..2, MaxVecLen)
    /\ pc = "cosine_similarity"
    /\ rgba_buffer = <<>>
    /\ width = 0
    /\ crop = DEFAULT_CROP_PERCENT
    /\ grid_size = DEFAULT_GRID_SIZE
    /\ overflow_checks \in BOOLEAN
    /\ gray = <<>>
    /\ bounds = NoBounds
    /\ points = <<>>
    /\ averages = <<>>
    /\ signature = <<>>
    /\ fault = NoFault
    /\ similarity = [kind |-> "none", dot |-> 0, norm_sq |-> 0]

SpecCos == InitCos /\ [][CosineSimilarity]_vars

\* The specification of the whole library: every call the model can make
Init == InitGray \/ InitPipe \/ InitSig \/ InitCos

Next == NextPipe \/ CosineSimilarity

Spec == Init /\ [][Next]_vars

----------------------------------------------------------------------------
(* Properties *)

\* The position of a stage in a call; a panicked call stands at the stage
\* that panicked
StageNumber(stage) ==
    CASE stage = "grayscale_buffer" -> 1
      [] stage = "crop_boundaries" -> 2
      [] stage = "grid_points" -> 3
      [] stage = "grid_averages" -> 4
      [] stage = "compute_signature" -> 5
      [] stage = "cosine_similarity" -> 5
      [] stage = "done" -> 6
      [] stage = "looping" -> 1

\* The stage has run: it returned, or it is the stage that panicked
HasRun(stage) ==
    IF pc = "panicked" THEN StageNumber(fault.stage) >= StageNumber(stage)
    ELSE StageNumber(pc) > StageNumber(stage)

\* The stage returned a value
Returned(stage) ==
    IF pc = "panicked" THEN StageNumber(fault.stage) > StageNumber(stage)
    ELSE StageNumber(pc) > StageNumber(stage)

Count(v) == Cardinality({k \in 1..Len(signature) : signature[k] = v})

\* C1: compute_signature returns exactly 8*(grid_size-1)^2 - 12*(grid_size-3) - 20
\* elements for a full Average Map, which is 544 for the default grid_size 10.
C1_SignatureLength ==
    (HasRun("compute_signature") /\ Lattice(grid_size) \subseteq DOMAIN averages)
        => /\ pc = "done"
           /\ Len(signature) =
                8 * (grid_size - 1) * (grid_size - 1) - 12 * (grid_size - 3) - 20
           /\ (grid_size = DEFAULT_GRID_SIZE => Len(signature) = 544)

C1_Witness ==
    /\ pc = "done"
    /\ grid_size = DEFAULT_GRID_SIZE
    /\ Len(signature) = 544
    /\ \E k \in 1..Len(signature) : signature[k] # 0

\* C2: under default tuning get_buffer_signature completes on every well-formed
\* buffer of an image of at least 64x64 pixels (no out-of-range pixel read, no
\* unsigned underflow of the cropped span) and returns exactly 544 elements.
C2_DefaultCompletes ==
    (/\ crop = DEFAULT_CROP_PERCENT
     /\ grid_size = DEFAULT_GRID_SIZE
     /\ width >= 64
     /\ Len(rgba_buffer) % (4 * width) = 0
     /\ Len(rgba_buffer) \div (4 * width) >= 64)
        => /\ pc # "panicked"
           /\ (HasRun("grid_points") =>
                 /\ bounds.upper_x >= bounds.lower_x
                 /\ bounds.upper_y >= bounds.lower_y)
           /\ (pc = "done" => Len(signature) = 544)

\* C3: for a grid of at least 2 rows and 2 columns and a crop in [0, 0.5],
\* crop_boundaries returns, without an out-of-range index into diff_sums and
\* without decrementing upper below 0, bounds with 0 <= lower < upper < dimension
\* on each axis.
C3_BoundsOrdered ==
    (/\ HasRun("crop_boundaries")
     /\ Len(gray) >= 2
     /\ Len(gray[1]) >= 2
     /\ crop \in 0..50)
        => /\ Returned("crop_boundaries")
           /\ 0 <= bounds.lower_x
           /\ bounds.lower_x < bounds.upper_x
           /\ bounds.upper_x < Len(gray[1])
           /\ 0 <= bounds.lower_y
           /\ bounds.lower_y < bounds.upper_y
           /\ bounds.upper_y < Len(gray)

\* C4: grid_points maps each lattice point (gx, gy) to
\* (lower_x + gx * floor((upper_x - lower_x) / grid_size),
\*  lower_y + gy * floor((upper_y - lower_y) / grid_size)), a point inside Bounds.
\* Stated for the Bounds that lie in the grid with lower <= upper on both axes.
C4_PointsInsideBounds ==
    (/\ HasRun("grid_points")
     /\ grid_size >= 2
     /\ bounds.lower_x <= bounds.upper_x
     /\ bounds.upper_x < Len(gray[1])
     /\ bounds.lower_y <= bounds.upper_y
     /\ bounds.upper_y < Len(gray))
        => /\ Returned("grid_points")
           /\ \A p \in Lattice(grid_size) :
                /\ points[p][1] = bounds.lower_x
                     + p[1] * ((bounds.upper_x - bounds.lower_x) \div grid_size)
                /\ points[p][2] = bounds.lower_y
                     + p[2] * ((bounds.upper_y - bounds.lower_y) \div grid_size)
                /\ bounds.lower_x <= points[p][1] /\ points[p][1] <= bounds.upper_x
                /\ bounds.lower_y <= points[p][2] /\ points[p][2] <= bounds.upper_y

\* C5: grayscale_buffer fails with InvalidDimensions, without reading
\* rgba_buffer out of bounds, when width = 0 or the length is not a multiple of
\* 4 * width; on every other input it returns len / (4 * width) rows of width
\* columns.
InvalidDimensions ==
    IF width = 0 THEN TRUE ELSE Len(rgba_buffer) % (4 * width) # 0

C5_GrayscaleFailsFast ==
    /\ (InvalidDimensions /\ Len(rgba_buffer) > 0) =>
          /\ pc # "looping"
          /\ fault.kind # "index_out_of_bounds"
          /\ (HasRun("grayscale_buffer") => fault.kind = "InvalidDimensions")
    /\ (~InvalidDimensions /\ HasRun("grayscale_buffer")) =>
          /\ Returned("grayscale_buffer")
          /\ Len(gray) = Len(rgba_buffer) \div (4 * width)
          /\ \A y \in 1..Len(gray) : Len(gray[y]) = width

\* C6: cosine_similarity returns 0.0, never NaN, when one of its equal-length
\* arguments consists only of zeros.
AllZero(v) == \A k \in 1..Len(v) : v[k] = 0

C6_ZeroNormIsZero ==
    (/\ HasRun("cosine_similarity")
     /\ Len(vec_a) = Len(vec_b)
     /\ Len(vec_a) > 0
     /\ (AllZero(vec_a) \/ AllZero(vec_b)))
        => /\ pc = "done"
           /\ similarity.kind = "finite"
           /\ similarity.dot = 0

\* C7: when the cropped span is smaller than grid_size on both axes the call
\* still completes (no out-of-range pixel read) and its signature consists only
\* of zeros.
DegenerateSpan ==
    /\ bounds.upper_x >= bounds.lower_x
    /\ bounds.upper_x - bounds.lower_x < grid_size
    /\ bounds.upper_y >= bounds.lower_y
    /\ bounds.upper_y - bounds.lower_y < grid_size

C7_DegenerateIsValid ==
    (Returned("crop_boundaries") /\ DegenerateSpan)
        => /\ pc # "panicked"
           /\ (pc = "done" => AllZero(signature))

----------------------------------------------------------------------------
(* The quantizer as the claims describe it *)

\* The (point, neighbour) pairs in the order compute_signature emits them
SignaturePairs(g) ==
    Flatten([k \in 1..((g - 1) * (g - 1)) |->
        LET here == PointAt(k, g)
            found == SelectSeq(NeighbourDeltas,
                               LAMBDA d : <<here[1] + d[1], here[2] + d[2]>> \in Lattice(g))
        IN [j \in 1..Len(found) |->
              <<here, <<here[1] + found[j][1], here[2] + found[j][2]>>>>]])

\* d = self_avg - neighbour_avg of every pair
PairDiffs(g) ==
    LET pairs == SignaturePairs(g)
    IN [k \in 1..Len(pairs) |-> averages[pairs[k][1]] - averages[pairs[k][2]]]

\* The k-th smallest element of a nonempty sequence of numbers
KthSmallest(vals, k) ==
    CHOOSE v \in {vals[i] : i \in 1..Len(vals)} :
        /\ Cardinality({i \in 1..Len(vals) : vals[i] < v}) < k
        /\ Cardinality({i \in 1..Len(vals) : vals[i] <= v}) >= k

\* Twice the classic median: twice the middle element of an odd count, the sum
\* of the two middle elements of an even count, 0 for no element
TwiceMedian(vals) ==
    LET n == Len(vals)
    IN IF n = 0 THEN 0
       ELSE IF n % 2 = 1 THEN 2 * KthSmallest(vals, (n + 1) \div 2)
       ELSE KthSmallest(vals, n \div 2) + KthSmallest(vals, (n \div 2) + 1)

\* The diffs that are not "same", of the sign sgn
Group(diffs, sgn) == SelectSeq(diffs, LAMBDA d : Abs(d) > 2 /\ Signum(d) = sgn)

\* The element for d when the group's median is the exact average m2 / 2
ElementExact(d, m2) ==
    IF Abs(d) <= 2 THEN 0
    ELSE IF 2 * Abs(d) >= Abs(m2) THEN 2 * Signum(d) ELSE Signum(d)

\* The element for d when the average of the two middle elements is truncated
\* toward zero
ElementTruncated(d, m2) ==
    IF Abs(d) <= 2 THEN 0
    ELSE IF Abs(d) >= Abs(TruncDiv(m2, 2)) THEN 2 * Signum(d) ELSE Signum(d)

SignatureDone == HasRun("compute_signature") /\ Lattice(grid_size) \subseteq DOMAIN averages

SplitsEvenly(sgn) ==
    LET group == Group(PairDiffs(grid_size), sgn)
        magnitudes == [k \in 1..Len(group) |-> Abs(group[k])]
        n == Len(magnitudes)
    IN \/ n = 0
       \/ /\ n % 2 = 0
          /\ KthSmallest(magnitudes, (n \div 2) + 1) - KthSmallest(magnitudes, n \div 2) >= 2

C10_SignBalanced ==
    SignatureDone =>
        /\ Count(2) = Count(-2)
        /\ Count(1) = Count(-1)
        /\ SumSeq(signature) = 0

\* A balanced signature with all four nonzero classes, from medians of even counts
C10_Witness ==
    /\ pc = "done"
    /\ Count(2) > 0
    /\ Count(1) > 0
    /\ Count(-2) = Count(2)
    /\ Count(-1) = Count(1)
    /\ Len(Group(PairDiffs(grid_size), -1)) % 2 = 0

====
